---- MODULE Spec2Model ----
(***************************************************************************)
(* shopee-cli: the CAPTCHA solve orchestrator (captcha.py, solve_captcha   *)
(* and its helpers) and the browser session that calls it (client.py,      *)
(* ShopeeClient).                                                          *)
(*                                                                         *)
(* The browser driver and the 2captcha service are the environment: every  *)
(* command sent to them returns one of the values it can return, or        *)
(* raises, chosen freely at the moment of the call.  The program is        *)
(* single-threaded; pc is the position of solve_captcha and cpc the        *)
(* position of the ShopeeClient method that is running.                    *)
(*                                                                         *)
(* Time: the loops of _get_result and _wait_for_captcha_widget compare the *)
(* clock with a deadline.  elapsed is the time on the clock since the      *)
(* deadline was set, in seconds: it advances by what the loop sleeps and   *)
(* by what each command of the loop takes, a duration in whole seconds     *)
(* that the environment chooses, and is counted up to the deadline only.   *)
(* The locals of a loop are gone when its function returns.                *)
(*                                                                         *)
(* Locals that an attempt of solve_captcha binds (captcha_bounds,          *)
(* crop_info, task_id, coords, target_x, page_x) are shown as unbound      *)
(* again at the head of the for loop.  Python keeps the binding of the     *)
(* earlier attempt; the model marks it as not bound by this attempt, so    *)
(* that a read of a value left by an earlier attempt shows as a read of an *)
(* unbound value.                                                          *)
(*                                                                         *)
(* Three specifications: Spec is one call of solve_captcha; SpecClient is  *)
(* a ShopeeClient from its construction to close(); SpecHelpers applies    *)
(* one helper (_fetch, _crop_captcha, the layout probe followed by the     *)
(* drag computation, the two readings of the verification indicator) to    *)
(* arguments drawn from the values it can be given.  SpecFair is Spec with *)
(* every step that can be taken eventually taken.                          *)
(***************************************************************************)
EXTENDS Integers, Sequences, FiniteSets, TLC

\* Variants of MAX_ATTEMPTS: the loop runs once more; once less.
MaxAttemptsOneMore == 8 + 1
MaxAttemptsOneLess == 8 - 1

\* captcha.py:25-27
MAX_ATTEMPTS == 8
POLL_INTERVAL == 2
\* Variant of POLL_TIMEOUT: the deadline leaves room for one more turn.
PollTimeoutOneMoreTurn == 60 + 2
POLL_TIMEOUT == 60
\* captcha.py:306 (default timeout) and captcha.py:303 (timeout after a refresh)
WAIT_TIMEOUT == 15
REFRESH_WAIT_TIMEOUT == 20
\* captcha.py:244-247, the margin around the widget bounds
CROP_MARGIN == 10

\* Bound of the model: how many navigate calls one session makes.
MaxNavigations == 1

VARIABLES
    \* ---- solve_captcha (captcha.py) ----
    pc,          \* position in solve_captcha; "idle" when it is not running
    api_key,     \* local api_key: "unbound", "None", "" or "KEY"
    attempt,     \* loop variable of `for attempt in range(1, MAX_ATTEMPTS + 1)`, 0 before the loop
    guarded,     \* TRUE inside the try block of the attempt, FALSE outside it
    task_id,     \* local task_id: -1 unbound, 0 for None or "", k for the k-th task
    coords,      \* local coords: [kind, x], kind "unbound", "None", "empty", "malformed", "point"
    crop_left,   \* crop_info["left"]: -1 while crop_info is unbound
    target_x,    \* local target_x (-1 unbound)
    page_x,      \* local page_x (-1 unbound)
    elapsed,     \* seconds on the clock since the running wait or poll loop set
                 \* its deadline, counted up to the deadline
    timeout,     \* timeout argument of the running _wait_for_captcha_widget
    reportArg,   \* argument `correct` of the running _report
    ret,         \* what the last browser command or oracle request returned
    outcome,     \* how the current attempt ended ("running" while it has not)
    log,         \* commands and requests issued by the current attempt, in order;
                 \* a wait or a poll is one entry, written when it ends
    nCreate,     \* createTask requests issued since solve_captcha was called
    captcha_bounds, \* local captcha_bounds, as returned by the bounds probe
    result,      \* return value of solve_captcha: "none", "True", "False"
    \* ---- ShopeeClient (client.py) ----
    cpc,         \* position in the running ShopeeClient method
    cookies,     \* self._cookies: "None", "empty" ([]) or "set"
    browsers,    \* every browser instance created, in creation order
    driver,      \* self._driver: index into browsers, 0 while unassigned
    visible,     \* local `visible` of _handle_captcha: index into browsers, 0 unbound
    url,         \* argument url of the running navigate ("" when none runs)
    clog,        \* browser steps of the constructor, then of the human fallback of
                 \* the running navigate
    navs,        \* navigate calls made so far
    require_auth, \* argument require_auth of the running __init__ (FALSE when none runs)
    cookie_file, \* the cookie file as the running __init__ found it (NoFile when none runs)
    last,        \* how the last public call ended: "none", "returned", "raised", "exit"
    \* ---- one helper applied to its arguments ----
    helper,      \* the helper that is applied: "none", "_fetch", "_crop_captcha", "drag",
                 \* "indicator"
    hpc,         \* "idle", "called" (arguments bound), "probed" or "returned"
    response,    \* _fetch: what execute_script gave for the in-page fetch
    fetched,     \* _fetch: how the call ended
    image,       \* _crop_captcha: size of the screenshot, in pixels
    crop_bounds, \* _crop_captcha: argument bounds, in tenths of a pixel
    crop,        \* _crop_captcha: the rectangle handed to img.crop, in pixels
    dom,         \* layout probe: the elements of the page, lengths in pixels
    layout,      \* layout probe: what _GET_LAYOUT_JS returned
    target,      \* drag computation: page_x, in pixels
    drag_distance, \* drag computation: the distance handed to the drag, in half pixels
    doc,         \* indicator: the h1 text and the title of the document that is read
    success,     \* indicator: what _do_drag_and_check returns after the drag:
                 \* "none", "True", "False"
    is_captcha   \* indicator: what _is_captcha_page returns: "none", "True", "False"

solverVars == <<pc, api_key, attempt, guarded, task_id, coords, crop_left, target_x,
                page_x, elapsed, timeout, reportArg, ret, outcome, log,
                nCreate, captcha_bounds, result>>
clientVars == <<cpc, cookies, browsers, driver, visible, url, clog, navs, last,
                require_auth, cookie_file>>
helperVars == <<helper, hpc, response, fetched, image, crop_bounds, crop, dom, layout,
                target, drag_distance, doc, success, is_captcha>>
vars == <<solverVars, clientVars, helperVars>>

----------------------------------------------------------------------------
(* get_api_key, captcha.py:30-46 *)

\* os.environ.get("2CAPTCHA_API_KEY"): unset, set to the empty string, or set.
Environs == {"unset", "", "KEY"}
\* One candidate .env path: absent, a file without a 2CAPTCHA_API_KEY= line,
\* with an empty value, or with a value, or a path that exists and that
\* read_text cannot read as text (a directory, bytes that are not UTF-8).
DotenvFile == {"absent", "nokey", "emptyvalue", "value", "unreadable"}
\* The three candidate paths of captcha.py:36-40, in search order.
Dotenvs == [1..3 -> DotenvFile]

RECURSIVE FirstDotenvKey(_, _)
FirstDotenvKey(files, i) ==
    IF i > 3 THEN "None"
    ELSE IF files[i] = "unreadable" THEN "raise"
    ELSE IF files[i] = "value" THEN "KEY"
    ELSE IF files[i] = "emptyvalue" THEN ""
    ELSE FirstDotenvKey(files, i + 1)

\* What the call gives: the key, "", "None", or "raise" when read_text raises.
get_api_key(environ, files) ==
    IF environ = "KEY" THEN "KEY" ELSE FirstDotenvKey(files, 1)

----------------------------------------------------------------------------
(* Helpers of the solve_captcha actions *)

Entry(cmd, r, t) == [cmd |-> cmd, ret |-> r, task |-> t]

\* The command is recorded in the attempt's log together with what it returned.
Logged(cmd, r, t) == log' = Append(log, Entry(cmd, r, t))

\* An exception raised at the current position: inside the try block it reaches
\* the handler of captcha.py:223; anywhere else it leaves solve_captcha.
RaiseTarget == IF guarded THEN "except" ELSE "raised"

Cmds(l) == [i \in 1..Len(l) |-> l[i].cmd]
Count(l, c) == Cardinality({i \in 1..Len(l) : l[i].cmd = c})
Has(l, c) == \E i \in 1..Len(l) : l[i].cmd = c
First(l, c) == CHOOSE i \in 1..Len(l) : l[i].cmd = c /\ \A j \in 1..(i - 1) : l[j].cmd # c

----------------------------------------------------------------------------
(* _crop_captcha, captcha.py:232-255.  Lengths are in tenths of a pixel     *)
(* where the browser reports fractions (the widget bounds) and in pixels    *)
(* where Python holds integers (the image size, the crop rectangle).        *)

Max(a, b) == IF a >= b THEN a ELSE b
Min(a, b) == IF a <= b THEN a ELSE b

\* Python's int() of a float given in tenths: truncation toward zero.
PyInt(tenths) == IF tenths >= 0 THEN tenths \div 10 ELSE -((-tenths) \div 10)

CropRect(img, bounds) ==
    [left   |-> Max(0, PyInt(bounds.x) - CROP_MARGIN),
     top    |-> Max(0, PyInt(bounds.y) - CROP_MARGIN),
     right  |-> Min(img.width, PyInt(bounds.x + bounds.width) + CROP_MARGIN),
     bottom |-> Min(img.height, PyInt(bounds.y + bounds.height) + CROP_MARGIN)]

\* What _GET_CAPTCHA_BOUNDS_JS returns when the widget is there (captcha.py:339).
NoBounds == [x |-> 0, y |-> 0, width |-> 0, height |-> 0]
WidgetBounds == {[x |-> 1000, y |-> 2000, width |-> 3000, height |-> 1500],
                 [x |-> 45, y |-> 38, width |-> 3000, height |-> 1500]}
\* The screenshot of the 1280x720 window (client.py:40).
Screenshots == {[width |-> 1280, height |-> 720]}
\* x of the first point of a ready result, in the cropped image.
OracleXs == {60}

NoCoords(kind) == [kind |-> kind, x |-> 0]

----------------------------------------------------------------------------
(* solve_captcha, captcha.py:128-229, one action per browser command or     *)
(* oracle request, in the order of the code.                                *)

\* captcha.py:134, `not api_key`: None and the empty string are no key.
KeyMissing(k) == k \in {"None", ""}

\* captcha.py:133-138
GetApiKey ==
    /\ pc = "get_api_key"
    /\ \E environ \in Environs, files \in Dotenvs :
         LET key == get_api_key(environ, files) IN
           IF key = "raise"
             THEN /\ pc' = "raised"
                  /\ UNCHANGED <<api_key, result, timeout, elapsed>>
             ELSE /\ api_key' = key
                  /\ IF KeyMissing(key)
                       THEN /\ pc' = "returned"
                            /\ result' = "False"
                            /\ UNCHANGED <<timeout, elapsed>>
                       ELSE /\ pc' = "wait"
                            /\ timeout' = WAIT_TIMEOUT
                            /\ elapsed' = 0
                            /\ UNCHANGED result
    /\ UNCHANGED <<attempt, guarded, task_id, coords, crop_left, target_x, page_x,
                   reportArg, ret, outcome, log, nCreate, captcha_bounds>>
    /\ UNCHANGED clientVars

\* What a command of a loop takes, in whole seconds, when the clock of the
\* loop shows t: any duration; one that goes past the deadline counts as the
\* one that reaches it.
Costs(t, deadline) == 0..(deadline - t)
\* The clock of a loop d seconds later; past the deadline the loop test only
\* sees that the deadline is reached.
Clock(t, d, deadline) == Min(t + d, deadline)

\* _wait_for_captcha_widget, captcha.py:306-317: one turn of its loop.  It is
\* called before the first attempt (captcha.py:138) and at the end of every
\* _refresh_captcha (captcha.py:303); both callers go on to the loop head.
WaitForCaptchaWidget ==
    /\ pc = "wait"
    /\ IF elapsed < timeout
         THEN \E r \in {"true", "false", "raise"}, d \in Costs(elapsed, timeout) :
                /\ ret' = r
                /\ CASE r = "true"  -> /\ elapsed' = 0
                                       /\ timeout' = 0
                                       /\ pc' = "for"
                                       /\ Logged("wait", "found", 0)
                     [] r = "false" -> /\ elapsed' = Clock(elapsed, d + 1, timeout)
                                       /\ pc' = "wait"
                                       /\ UNCHANGED <<log, timeout>>
                     [] r = "raise" -> /\ elapsed' = 0
                                       /\ timeout' = 0
                                       /\ pc' = RaiseTarget
                                       /\ Logged("wait", "raise", 0)
         ELSE /\ pc' = "for"
              /\ elapsed' = 0
              /\ timeout' = 0
              /\ Logged("wait", "timeout", 0)
              /\ UNCHANGED ret
    /\ UNCHANGED <<api_key, attempt, guarded, task_id, coords, crop_left, target_x,
                   page_x, reportArg, outcome, nCreate,
                   captcha_bounds, result>>
    /\ UNCHANGED clientVars


\* captcha.py:140 and 228-229: the head of the for loop, and the return after
\* the last attempt.
ForAttempt ==
    /\ pc = "for"
    /\ IF attempt < MAX_ATTEMPTS
         THEN /\ attempt' = attempt + 1
              /\ pc' = "dismiss"
              /\ guarded' = TRUE
              /\ log' = << >>
              /\ outcome' = "running"
              /\ ret' = "none"
              /\ captcha_bounds' = NoBounds
              /\ crop_left' = -1
              /\ task_id' = -1
              /\ coords' = NoCoords("unbound")
              /\ target_x' = -1
              /\ page_x' = -1
              /\ UNCHANGED result
         ELSE /\ pc' = "returned"
              /\ result' = "False"
              /\ guarded' = FALSE
              /\ UNCHANGED <<attempt, log, outcome, ret, captcha_bounds, crop_left,
                             task_id, coords, target_x, page_x>>
    /\ UNCHANGED <<api_key, elapsed, timeout, reportArg, nCreate>>
    /\ UNCHANGED clientVars

\* captcha.py:145, _dismiss_modals (captcha.py:274-294)
DismissModals ==
    /\ pc = "dismiss"
    /\ \E r \in {"ok", "raise"} :
         /\ ret' = r
         /\ Logged("dismiss", r, 0)
         /\ pc' = IF r = "raise" THEN RaiseTarget ELSE "bounds"
    /\ UNCHANGED <<api_key, attempt, guarded, task_id, coords, crop_left, target_x,
                   page_x, elapsed, timeout, reportArg, outcome, nCreate,
                   captcha_bounds, result>>
    /\ UNCHANGED clientVars

\* captcha.py:148-152
\* Where the attempt goes when the bounds probe returned null.
\* Variant of AfterNoBounds: the next attempt starts without a refresh.
AfterNoBoundsNoRefresh == "for"

AfterNoBounds == "refresh_url"

ProbeBounds ==
    /\ pc = "bounds"
    /\ \/ /\ ret' = "raise"
          /\ pc' = RaiseTarget
          /\ UNCHANGED <<captcha_bounds, outcome>>
       \/ /\ ret' = "null"
          /\ captcha_bounds' = NoBounds
          /\ outcome' = "no_widget"
          /\ pc' = AfterNoBounds
       \/ \E b \in WidgetBounds :
            /\ ret' = "bounds"
            /\ captcha_bounds' = b
            /\ pc' = "screenshot"
            /\ UNCHANGED outcome
    /\ Logged("bounds", ret', 0)
    /\ UNCHANGED <<api_key, attempt, guarded, task_id, coords, crop_left, target_x,
                   page_x, elapsed, timeout, reportArg, nCreate, result>>
    /\ UNCHANGED clientVars

\* captcha.py:157-160
ScreenshotAndCrop ==
    /\ pc = "screenshot"
    /\ \/ /\ ret' = "raise"
          /\ pc' = RaiseTarget
          /\ UNCHANGED crop_left
       \/ \E img \in Screenshots :
            /\ ret' = "png"
            /\ crop_left' = CropRect(img, captcha_bounds).left
            /\ pc' = "create_task"
    /\ Logged("screenshot", ret', 0)
    /\ UNCHANGED <<api_key, attempt, guarded, task_id, coords, target_x, page_x,
                   elapsed, timeout, reportArg, outcome, nCreate,
                   captcha_bounds, result>>
    /\ UNCHANGED clientVars

\* captcha.py:163-165, _create_task (captcha.py:64-76).  The answers: the
\* request raises; errorId is non-zero or missing ("error"); errorId is 0 and
\* taskId is missing, so that str("") is returned ("notask"); errorId is 0
\* with a taskId ("task").  The k-th createTask request creates task k.
\* Variant of create_task_result: the errorId test is left out.
create_task_result_unchecked(r, k) == k

create_task_result(r, k) == IF r = "task" THEN k ELSE 0

CreateTask ==
    /\ pc = "create_task"
    /\ nCreate' = nCreate + 1
    /\ \E r \in {"raise", "error", "notask", "task"} :
         /\ ret' = r
         /\ IF r = "raise"
              THEN /\ pc' = RaiseTarget
                   /\ Logged("createTask", r, 0)
                   /\ UNCHANGED <<task_id, outcome, elapsed>>
              ELSE /\ task_id' = create_task_result(r, nCreate')
                   /\ Logged("createTask", r, task_id')
                   /\ IF task_id' = 0
                        THEN /\ pc' = "for"
                             /\ outcome' = "submit_failed"
                             /\ UNCHANGED elapsed
                        ELSE /\ pc' = "poll_sleep"
                             /\ elapsed' = 0
                             /\ UNCHANGED outcome
    /\ UNCHANGED <<api_key, attempt, guarded, coords, crop_left, target_x, page_x,
                   timeout, reportArg, captcha_bounds, result>>
    /\ UNCHANGED clientVars

\* _get_result, captcha.py:85-87 and 112-113: the loop test, the sleep, and
\* the return after the deadline.
PollSleep ==
    /\ pc = "poll_sleep"
    /\ IF elapsed < POLL_TIMEOUT
         THEN /\ elapsed' = Clock(elapsed, POLL_INTERVAL, POLL_TIMEOUT)
              /\ pc' = "poll_keepalive"
              /\ UNCHANGED <<coords, log>>
         ELSE /\ coords' = NoCoords("None")
              /\ pc' = "coords"
              /\ Logged("poll", "timeout", task_id)
              /\ elapsed' = 0
    /\ UNCHANGED <<api_key, attempt, guarded, task_id, crop_left, target_x, page_x,
                   timeout, reportArg, ret, outcome, nCreate, captcha_bounds,
                   result>>
    /\ UNCHANGED clientVars

\* _get_result, captcha.py:90-92 and 100-101: the keepalive script; what it
\* raises is swallowed and skips the liveness check.
PollKeepalive ==
    /\ pc = "poll_keepalive"
    /\ \E r \in {"ok", "raise"}, d \in Costs(elapsed, POLL_TIMEOUT) :
         /\ ret' = r
         /\ elapsed' = Clock(elapsed, d, POLL_TIMEOUT)
         /\ pc' = IF r = "ok" THEN "poll_alive" ELSE "poll_request"
    /\ UNCHANGED <<api_key, attempt, guarded, task_id, coords, crop_left, target_x,
                   page_x, timeout, reportArg, outcome, log,
                   nCreate, captcha_bounds, result>>
    /\ UNCHANGED clientVars

\* _get_result, captcha.py:94-101: the liveness check of the slider widget.
\* Where the poll goes after the check returned r.
\* Variant of AfterPollAlive: the answer of the liveness check is not looked at.
AfterPollAliveIgnored(r) == "poll_request"
\* Variant of AfterPollAlive: an exception of the liveness check is let through.
AfterPollAliveRaising(r) ==
    IF r = "raise" THEN RaiseTarget ELSE IF r = "false" THEN "coords" ELSE "poll_request"

AfterPollAlive(r) == IF r = "false" THEN "coords" ELSE "poll_request"

PollAlive ==
    /\ pc = "poll_alive"
    /\ \E r \in {"true", "false", "raise"}, d \in Costs(elapsed, POLL_TIMEOUT) :
         /\ ret' = r
         /\ pc' = AfterPollAlive(r)
         /\ IF pc' = "coords"
              THEN /\ coords' = NoCoords("None")
                   /\ Logged("poll", "expired", task_id)
                   /\ elapsed' = 0
              ELSE /\ elapsed' = Clock(elapsed, d, POLL_TIMEOUT)
                   /\ UNCHANGED <<coords, log>>
    /\ UNCHANGED <<api_key, attempt, guarded, task_id, crop_left, target_x, page_x,
                   timeout, reportArg, outcome, nCreate, captcha_bounds, result>>
    /\ UNCHANGED clientVars

\* _get_result, captcha.py:103-111: one getTaskResult request.  The answers:
\* the request raises; errorId non-zero or missing ("error"); status not
\* ready ("processing"); ready with a point, with an empty or missing
\* coordinate list ("empty"), or with a first element that has no "x"
\* ("malformed").
PollRequest ==
    /\ pc = "poll_request"
    /\ \/ \E d \in Costs(elapsed, POLL_TIMEOUT) :
            /\ ret' = "processing"
            /\ pc' = "poll_sleep"
            /\ elapsed' = Clock(elapsed, d, POLL_TIMEOUT)
            /\ UNCHANGED <<coords, log>>
       \/ /\ \/ /\ ret' = "raise"
                /\ pc' = RaiseTarget
                /\ Logged("poll", "raise", task_id)
                /\ UNCHANGED coords
             \/ /\ ret' = "error"
                /\ coords' = NoCoords("None")
                /\ pc' = "coords"
                /\ Logged("poll", "error", task_id)
             \/ \E k \in {"empty", "malformed"} :
                  /\ ret' = "ready"
                  /\ coords' = NoCoords(k)
                  /\ pc' = "coords"
                  /\ Logged("poll", k, task_id)
             \/ \E x \in OracleXs :
                  /\ ret' = "ready"
                  /\ coords' = [kind |-> "point", x |-> x]
                  /\ pc' = "coords"
                  /\ Logged("poll", "point", task_id)
          /\ elapsed' = 0
    /\ UNCHANGED <<api_key, attempt, guarded, task_id, crop_left, target_x, page_x,
                   timeout, reportArg, outcome, nCreate, captcha_bounds, result>>
    /\ UNCHANGED clientVars

\* captcha.py:169-174: where the attempt goes when the poll gave no
\* coordinates (None or an empty list): straight to the next attempt.
\* Variant of AfterNoCoords: the task is reported and the widget refreshed.
AfterNoCoordsReported == "report"

AfterNoCoords == "for"

CheckCoords ==
    /\ pc = "coords"
    /\ CASE coords.kind \in {"None", "empty"} ->
              /\ pc' = AfterNoCoords
              /\ outcome' = "no_coords"
              /\ UNCHANGED target_x
         [] coords.kind = "malformed" ->
              /\ pc' = RaiseTarget
              /\ UNCHANGED <<outcome, target_x>>
         [] coords.kind = "point" ->
              /\ target_x' = coords.x
              /\ pc' = "slider_alive"
              /\ UNCHANGED outcome
    /\ UNCHANGED <<api_key, attempt, guarded, task_id, coords, crop_left, page_x,
                   elapsed, timeout, reportArg, ret, log, nCreate,
                   captcha_bounds, result>>
    /\ UNCHANGED clientVars

\* captcha.py:177-187: the liveness check after the poll, then the mapping of
\* the oracle's x back to page space.
\* Variant of MapToPage: the crop offset is not added back.
MapToPageWithoutOffset(x, left) == x

MapToPage(x, left) == x + left

\* captcha.py:180-184: where the attempt goes after the liveness check
\* returned r.
\* Variant of AfterSliderAlive: the answer of the check is not looked at.
AfterSliderAliveIgnored(r) == IF r = "raise" THEN RaiseTarget ELSE "layout"

AfterSliderAlive(r) ==
    IF r = "raise" THEN RaiseTarget ELSE IF r = "false" THEN "report" ELSE "layout"

SliderAlive ==
    /\ pc = "slider_alive"
    /\ \E r \in {"true", "false", "raise"} :
         /\ ret' = r
         /\ Logged("alive", r, 0)
         /\ pc' = AfterSliderAlive(r)
         /\ CASE pc' = "report" -> /\ reportArg' = FALSE
                                   /\ outcome' = "expired"
                                   /\ UNCHANGED page_x
              [] pc' = "layout" -> /\ page_x' = MapToPage(target_x, crop_left)
                                   /\ UNCHANGED <<outcome, reportArg>>
              [] OTHER          -> UNCHANGED <<outcome, reportArg, page_x>>
    /\ UNCHANGED <<api_key, attempt, guarded, task_id, coords, crop_left, target_x,
                   elapsed, timeout, nCreate, captcha_bounds, result>>
    /\ UNCHANGED clientVars

\* captcha.py:190-212: the fresh layout probe and the drag computation.
ProbeLayout ==
    /\ pc = "layout"
    /\ \E r \in {"layout", "null", "raise"} :
         /\ ret' = r
         /\ Logged("layout", r, 0)
         /\ CASE r = "raise" -> /\ pc' = RaiseTarget
                                /\ UNCHANGED <<outcome, reportArg>>
              [] r = "null"  -> /\ pc' = "report"
                                /\ reportArg' = FALSE
                                /\ outcome' = "no_layout"
              [] r = "layout" -> /\ pc' = "drag"
                                 /\ UNCHANGED <<outcome, reportArg>>
    /\ UNCHANGED <<api_key, attempt, guarded, task_id, coords, crop_left, target_x,
                   page_x, elapsed, timeout, nCreate, captcha_bounds, result>>
    /\ UNCHANGED clientVars

\* _do_drag_and_check, captcha.py:260-263, called at captcha.py:215: the drag
\* script; when it returns false the caller goes on at captcha.py:219-221.
\* Where the attempt goes after the drag script returned r.
\* Variant of AfterDrag: the indicator is read although the drag returned false.
AfterDragAlwaysChecked(r) == IF r = "raise" THEN RaiseTarget ELSE "check_h1"

AfterDrag(r) ==
    IF r = "raise" THEN RaiseTarget ELSE IF r = "false" THEN "report" ELSE "check_h1"

Drag ==
    /\ pc = "drag"
    /\ \E r \in {"true", "false", "raise"} :
         /\ ret' = r
         /\ Logged("drag", r, 0)
         /\ pc' = AfterDrag(r)
         /\ IF pc' = "report"
              THEN /\ reportArg' = FALSE
                   /\ outcome' = "drag_failed"
              ELSE UNCHANGED <<outcome, reportArg>>
    /\ UNCHANGED <<api_key, attempt, guarded, task_id, coords, crop_left, target_x,
                   page_x, elapsed, timeout, nCreate, captcha_bounds, result>>
    /\ UNCHANGED clientVars

\* The text of the page's h1 as the script of captcha.py:265-267 returns it:
\* "" when there is no h1, a text that contains "verify" in some letter case,
\* or another text.
H1Texts == {"", "Verify", "Other"}
\* "verify" in h1.lower()
ContainsVerify(text) == text = "Verify"

\* _do_drag_and_check, captcha.py:264-271, and its caller, captcha.py:215-220:
\* the argument of the report that follows the reading of the indicator.
VerdictOf(h1) == ~ContainsVerify(h1)

CheckH1 ==
    /\ pc = "check_h1"
    /\ \/ /\ ret' = "raise"
          /\ pc' = RaiseTarget
          /\ UNCHANGED <<outcome, reportArg>>
       \/ \E h1 \in H1Texts :
            /\ ret' = h1
            /\ pc' = "report"
            /\ reportArg' = VerdictOf(h1)
            /\ outcome' = IF reportArg' THEN "solved" ELSE "rejected"
    /\ Logged("h1", ret', 0)
    /\ UNCHANGED <<api_key, attempt, guarded, task_id, coords, crop_left, target_x,
                   page_x, elapsed, timeout, nCreate, captcha_bounds, result>>
    /\ UNCHANGED clientVars

\* _report, captcha.py:116-121, and what its callers do next: return True
\* after report(True) (captcha.py:216-217), refresh after report(False)
\* (captcha.py:182-183, 192-193, 220-221).  The request answers, answers with
\* an error, or raises; r is that answer.
\* Variants of AfterReport: the `return True` is missing; the refresh after
\* report(False) is missing; _report lets the exception of the request through.
AfterReportNoReturn(r, correct) == "refresh_url"
AfterReportNoRefresh(r, correct) == IF correct THEN "returned" ELSE "for"
AfterReportRaising(r, correct) ==
    IF r = "raise" THEN RaiseTarget ELSE IF correct THEN "returned" ELSE "refresh_url"
\* Variant of AfterReport: a report that the service answered with an error
\* is sent a second time.
AfterReportSentAgain(r, correct) ==
    IF r = "error" /\ ~Has(log, "reportCorrect") /\ ~Has(log, "reportIncorrect")
      THEN "report"
      ELSE IF correct THEN "returned" ELSE "refresh_url"

AfterReport(r, correct) == IF correct THEN "returned" ELSE "refresh_url"

Report ==
    /\ pc = "report"
    /\ \E r \in {"ok", "error", "raise"} :
         /\ ret' = r
         /\ Logged(IF reportArg THEN "reportCorrect" ELSE "reportIncorrect", "-", task_id)
         /\ pc' = AfterReport(r, reportArg)
    /\ IF pc' = "returned"
         THEN result' = "True" /\ guarded' = FALSE
         ELSE UNCHANGED <<result, guarded>>
    /\ UNCHANGED <<api_key, attempt, task_id, coords, crop_left, target_x, page_x,
                   elapsed, timeout, reportArg, outcome, nCreate,
                   captcha_bounds>>
    /\ UNCHANGED clientVars

\* _refresh_captcha, captcha.py:299
RefreshUrl ==
    /\ pc = "refresh_url"
    /\ \E r \in {"url", "raise"} :
         /\ ret' = r
         /\ Logged("current_url", r, 0)
         /\ pc' = IF r = "raise" THEN RaiseTarget ELSE "refresh_get"
    /\ UNCHANGED <<api_key, attempt, guarded, task_id, coords, crop_left, target_x,
                   page_x, elapsed, timeout, reportArg, outcome, nCreate,
                   captcha_bounds, result>>
    /\ UNCHANGED clientVars

\* _refresh_captcha, captcha.py:300-301
RefreshGet ==
    /\ pc = "refresh_get"
    /\ \E r \in {"ok", "raise"} :
         /\ ret' = r
         /\ Logged("reload", r, 0)
         /\ pc' = IF r = "raise" THEN RaiseTarget ELSE "refresh_dismiss"
    /\ UNCHANGED <<api_key, attempt, guarded, task_id, coords, crop_left, target_x,
                   page_x, elapsed, timeout, reportArg, outcome, nCreate,
                   captcha_bounds, result>>
    /\ UNCHANGED clientVars

\* _refresh_captcha, captcha.py:302-303
RefreshDismiss ==
    /\ pc = "refresh_dismiss"
    /\ \E r \in {"ok", "raise"} :
         /\ ret' = r
         /\ Logged("dismiss", r, 0)
         /\ IF r = "raise"
              THEN pc' = RaiseTarget /\ UNCHANGED <<timeout, elapsed>>
              ELSE pc' = "wait" /\ timeout' = REFRESH_WAIT_TIMEOUT /\ elapsed' = 0
    /\ UNCHANGED <<api_key, attempt, guarded, task_id, coords, crop_left, target_x,
                   page_x, reportArg, outcome, nCreate, captcha_bounds,
                   result>>
    /\ UNCHANGED clientVars

\* captcha.py:223-226: the handler of the attempt's try block.  Its own
\* _refresh_captcha call is outside any try block.
ExceptHandler ==
    /\ pc = "except"
    /\ guarded' = FALSE
    /\ outcome' = "exception"
    /\ pc' = "refresh_url"
    /\ UNCHANGED <<api_key, attempt, task_id, coords, crop_left, target_x, page_x,
                   elapsed, timeout, reportArg, ret, log, nCreate,
                   captcha_bounds, result>>
    /\ UNCHANGED clientVars

SolverNext ==
    \/ GetApiKey
    \/ WaitForCaptchaWidget
    \/ ForAttempt
    \/ DismissModals
    \/ ProbeBounds
    \/ ScreenshotAndCrop
    \/ CreateTask
    \/ PollSleep
    \/ PollKeepalive
    \/ PollAlive
    \/ PollRequest
    \/ CheckCoords
    \/ SliderAlive
    \/ ProbeLayout
    \/ Drag
    \/ CheckH1
    \/ Report
    \/ RefreshUrl
    \/ RefreshGet
    \/ RefreshDismiss
    \/ ExceptHandler

\* The locals of a solve_captcha call that has just been entered.
SolverEntered ==
    /\ pc = "get_api_key"
    /\ api_key = "unbound"
    /\ attempt = 0
    /\ guarded = FALSE
    /\ task_id = -1
    /\ coords = NoCoords("unbound")
    /\ crop_left = -1
    /\ target_x = -1
    /\ page_x = -1
    /\ elapsed = 0
    /\ timeout = 0
    /\ reportArg = FALSE
    /\ ret = "none"
    /\ outcome = "running"
    /\ log = << >>
    /\ nCreate = 0
    /\ captcha_bounds = NoBounds
    /\ result = "none"

----------------------------------------------------------------------------
(* config.py: load_cookies, config.py:46-59 *)

\* The cookie file: missing; not readable as text ("unreadable": not UTF-8,
\* or a directory), where path.read_text() raises; text that is not JSON
\* ("unparsable"), where json.loads raises JSONDecodeError; JSON that is not
\* an object ("not_object"), where data.get raises AttributeError; a JSON
\* object whose saved_at is not a number ("bad_saved_at"), where the
\* subtraction of config.py:57 raises TypeError; or a JSON object with the
\* age of saved_at in seconds at the time of the call (a missing saved_at
\* counts from the epoch, config.py:55) and its "cookies" entry: missing
\* ("None"), an empty list ("empty") or a list of cookies ("set").
STALE_AFTER == 86400
Ages == {0, 86400, 86401}
\* The files on which load_cookies raises: only JSONDecodeError and KeyError
\* are caught (config.py:54), and only around the reading and the parsing.
RaisingFiles == {"unreadable", "not_object", "bad_saved_at"}
CookieFiles ==
    [state : {"missing", "unparsable"} \cup RaisingFiles, age : {0}, cookies : {"None"}]
    \cup [state : {"json"}, age : Ages, cookies : {"None", "empty", "set"}]

\* No cookie file is being looked at.
NoFile == [state |-> "unread", age |-> 0, cookies |-> "None"]

\* The list of the file, "None", or "raise" when an exception leaves it.
load_cookies(file) ==
    IF file.state \in RaisingFiles THEN "raise"
    ELSE IF file.state # "json" THEN "None"
    ELSE IF file.age > STALE_AFTER THEN "None"
    ELSE file.cookies

----------------------------------------------------------------------------
(* client.py: the browser instances and ShopeeClient *)

HOME == "https://shopee.com.my"
\* The URLs navigate is called with.
Urls == {"/search"}

\* A browser instance: on-screen or off-screen, live until quit, and the
\* cookie set that was injected into it ("None" when none was).
Browser(vis, injected) == [visible |-> vis, live |-> TRUE, cookies |-> injected]


\* _make_driver, client.py:30-41: a new instance, live, without cookies.
MakeDriver(bs, vis) == Append(bs, Browser(vis, "None"))

\* Variant of Quit: the instance is left running.
QuitForgotten(bs, i) == bs

\* driver.quit(): the instance is no longer live.
Quit(bs, i) == [bs EXCEPT ![i].live = FALSE]

Live(bs) == {i \in 1..Len(bs) : bs[i].live}

\* `if self._cookies:` (client.py:77, 176, 190): a non-empty cookie list.
HasCookies(c) == c = "set"

\* _inject_cookies, client.py:44-59: the cookie set handed to the instance.
InjectCookies(bs, i, c) == [bs EXCEPT ![i].cookies = c]

Step(s, b, a) == [step |-> s, browser |-> b, arg |-> a]

\* client.py:76-82, 175-180 and 189-194: after _make_driver, either
\* _inject_cookies or a plain load of the home page.  The first driver.get
\* of _inject_cookies may raise before any cookie is added ("raise1"), the
\* second after they were added ("raise2"); add_cookie errors are swallowed.
\* i is the instance, next the position after the step, c the cookie set.
Prepare(i, next, onRaise) ==
    IF HasCookies(cookies)
      THEN \E r \in {"ok", "raise1", "raise2"} :
             /\ browsers' = IF r = "raise1" THEN browsers
                            ELSE InjectCookies(browsers, i, cookies)
             /\ clog' = Append(clog, Step("inject", i, cookies))
             /\ IF r = "ok"
                  THEN cpc' = next /\ UNCHANGED last
                  ELSE cpc' = onRaise /\ last' = "raised"
      ELSE \E r \in {"ok", "raise"} :
             /\ UNCHANGED browsers
             /\ clog' = Append(clog, Step("get", i, HOME))
             /\ IF r = "ok"
                  THEN cpc' = next /\ UNCHANGED last
                  ELSE cpc' = onRaise /\ last' = "raised"

\* ShopeeClient.__init__, client.py:70-74.  The argument and the file that was
\* found are kept until the constructor is over.  An exception of
\* load_cookies leaves the constructor before self._cookies is bound.
CtorLoadCookies ==
    /\ cpc = "new"
    /\ \E file \in CookieFiles, auth \in BOOLEAN :
         /\ cookie_file' = file
         /\ require_auth' = auth
         /\ IF load_cookies(file) = "raise"
              THEN /\ UNCHANGED cookies
                   /\ cpc' = "ctor_raised"
                   /\ last' = "raised"
              ELSE /\ cookies' = load_cookies(file)
                   /\ IF auth /\ cookies' = "None"
                        THEN cpc' = "exited" /\ last' = "exit"
                        ELSE cpc' = "ctor_make" /\ UNCHANGED last
    /\ UNCHANGED <<browsers, driver, visible, url, clog, navs>>
    /\ UNCHANGED solverVars

\* ShopeeClient.__init__, client.py:76
CtorMakeDriver ==
    /\ cpc = "ctor_make"
    /\ \/ /\ browsers' = MakeDriver(browsers, FALSE)
          /\ driver' = Len(browsers')
          /\ cpc' = "ctor_prepare"
          /\ UNCHANGED last
       \/ /\ cpc' = "ctor_raised"
          /\ last' = "raised"
          /\ UNCHANGED <<browsers, driver>>
    /\ UNCHANGED <<cookies, visible, url, clog, navs, require_auth, cookie_file>>
    /\ UNCHANGED solverVars

\* ShopeeClient.__init__, client.py:77-82
CtorPrepare ==
    /\ cpc = "ctor_prepare"
    /\ Prepare(driver, "ready", "ctor_raised")
    /\ require_auth' = FALSE
    /\ cookie_file' = NoFile
    /\ UNCHANGED <<cookies, driver, visible, url, navs>>
    /\ UNCHANGED solverVars

\* The text that the script of _is_captcha_page (client.py:152-154) returns
\* for a page: its h1 text, else its title, else "".
Pages == [h1 : H1Texts, title : H1Texts]
IndicatorText(page) == IF page.h1 # "" THEN page.h1 ELSE page.title

\* _is_captcha_page, client.py:155
is_captcha_page(page) == ContainsVerify(IndicatorText(page))

\* navigate, client.py:99-101, up to the verdict of _is_captcha_page
\* (client.py:149-157, 161-167).  In the order of the disjuncts: the page
\* load raises; the indicator script raises, which counts as no CAPTCHA; the
\* page is no verification page; it is one, and solve_captcha is called.
\* A command sent to an instance that was quit raises.
Navigate ==
    /\ cpc = "ready"
    /\ navs < MaxNavigations
    /\ navs' = navs + 1
    /\ clog' = << >>
    /\ \E u \in Urls :
         /\ url' = u
         /\ \/ /\ cpc' = "ready"
               /\ last' = "raised"
               /\ UNCHANGED solverVars
            \/ /\ browsers[driver].live
               /\ cpc' = "ready"
               /\ last' = "returned"
               /\ UNCHANGED solverVars
            \/ /\ browsers[driver].live
               /\ \E page \in Pages : ~is_captcha_page(page)
               /\ cpc' = "ready"
               /\ last' = "returned"
               /\ UNCHANGED solverVars
            \/ /\ browsers[driver].live
               /\ \E page \in Pages : is_captcha_page(page)
               /\ cpc' = "hc_solving"
               /\ UNCHANGED last
               /\ pc' = "get_api_key"
               /\ UNCHANGED <<api_key, attempt, guarded, task_id, coords, crop_left,
                              target_x, page_x, elapsed, timeout, reportArg,
                              ret, outcome, log, nCreate, captcha_bounds, result>>
    /\ UNCHANGED <<cookies, browsers, driver, visible, require_auth, cookie_file>>

\* _handle_captcha, client.py:167-172: solve_captcha has returned or raised.
\* The locals of solve_captcha are gone.
SolverIdle ==
    /\ pc' = "idle"
    /\ api_key' = "unbound"
    /\ attempt' = 0
    /\ guarded' = FALSE
    /\ task_id' = -1
    /\ coords' = NoCoords("unbound")
    /\ crop_left' = -1
    /\ target_x' = -1
    /\ page_x' = -1
    /\ elapsed' = 0
    /\ timeout' = 0
    /\ reportArg' = FALSE
    /\ ret' = "none"
    /\ outcome' = "running"
    /\ log' = << >>
    /\ nCreate' = 0
    /\ captcha_bounds' = NoBounds
    /\ result' = "none"

\* Variant of FallbackOrder: the visible browser is quit before input().
FallbackOrderQuitBeforeAck ==
    <<"hc_quit", "hc_make_visible", "hc_prepare_visible", "hc_get_visible",
      "hc_quit_visible", "hc_input", "hc_make_offscreen", "hc_prepare_offscreen",
      "hc_get_offscreen", "ready">>

\* The steps of the human fallback, client.py:173-196, in the order of the code.
FallbackOrder ==
    <<"hc_quit", "hc_make_visible", "hc_prepare_visible", "hc_get_visible",
      "hc_input", "hc_quit_visible", "hc_make_offscreen", "hc_prepare_offscreen",
      "hc_get_offscreen", "ready">>

\* The position after step s of the fallback.
AfterStep(s) ==
    FallbackOrder[1 + CHOOSE i \in 1..(Len(FallbackOrder) - 1) : FallbackOrder[i] = s]

AfterSolver ==
    /\ cpc = "hc_solving"
    /\ pc \in {"returned", "raised"}
    /\ CASE pc = "raised" -> cpc' = "ready" /\ last' = "raised"
         [] pc = "returned" /\ result = "True" -> cpc' = "ready" /\ last' = "returned"
         [] pc = "returned" /\ result = "False" -> cpc' = "hc_quit" /\ UNCHANGED last
    /\ SolverIdle
    /\ UNCHANGED <<cookies, browsers, driver, visible, url, clog, navs, require_auth, cookie_file>>

\* client.py:173.  A quit that raises leaves the instance live or not.
HcQuit ==
    /\ cpc = "hc_quit"
    /\ clog' = Append(clog, Step("quit", driver, ""))
    /\ \/ /\ browsers' = Quit(browsers, driver)
          /\ cpc' = AfterStep("hc_quit")
          /\ UNCHANGED last
       \/ /\ browsers' \in {browsers, Quit(browsers, driver)}
          /\ cpc' = "ready"
          /\ last' = "raised"
    /\ UNCHANGED <<cookies, driver, visible, url, navs, require_auth, cookie_file>>
    /\ UNCHANGED solverVars

\* client.py:175
HcMakeVisible ==
    /\ cpc = "hc_make_visible"
    /\ clog' = Append(clog, Step("make_visible", Len(browsers) + 1, ""))
    /\ \/ /\ browsers' = MakeDriver(browsers, TRUE)
          /\ visible' = Len(browsers')
          /\ cpc' = AfterStep("hc_make_visible")
          /\ UNCHANGED last
       \/ /\ cpc' = "ready"
          /\ last' = "raised"
          /\ UNCHANGED <<browsers, visible>>
    /\ UNCHANGED <<cookies, driver, url, navs, require_auth, cookie_file>>
    /\ UNCHANGED solverVars

\* client.py:176-180
HcPrepareVisible ==
    /\ cpc = "hc_prepare_visible"
    /\ Prepare(visible, AfterStep("hc_prepare_visible"), "ready")
    /\ UNCHANGED <<cookies, driver, visible, url, navs, require_auth, cookie_file>>
    /\ UNCHANGED solverVars

\* client.py:181-182
HcGetVisible ==
    /\ cpc = "hc_get_visible"
    /\ clog' = Append(clog, Step("get", visible, url))
    /\ \/ cpc' = AfterStep("hc_get_visible") /\ UNCHANGED last
       \/ cpc' = "ready" /\ last' = "raised"
    /\ UNCHANGED <<cookies, browsers, driver, visible, url, navs, require_auth, cookie_file>>
    /\ UNCHANGED solverVars

\* client.py:184: input() returns when the human has pressed Enter, or
\* raises (end of input, interrupt).
HcInput ==
    /\ cpc = "hc_input"
    /\ clog' = Append(clog, Step("input", 0, ""))
    /\ \/ cpc' = AfterStep("hc_input") /\ UNCHANGED last
       \/ cpc' = "ready" /\ last' = "raised"
    /\ UNCHANGED <<cookies, browsers, driver, visible, url, navs, require_auth, cookie_file>>
    /\ UNCHANGED solverVars

\* client.py:185-186
HcQuitVisible ==
    /\ cpc = "hc_quit_visible"
    /\ clog' = Append(clog, Step("quit", visible, ""))
    /\ \/ /\ browsers' = Quit(browsers, visible)
          /\ cpc' = AfterStep("hc_quit_visible")
          /\ UNCHANGED last
       \/ /\ browsers' \in {browsers, Quit(browsers, visible)}
          /\ cpc' = "ready"
          /\ last' = "raised"
    /\ UNCHANGED <<cookies, driver, visible, url, navs, require_auth, cookie_file>>
    /\ UNCHANGED solverVars

\* client.py:189
HcMakeOffscreen ==
    /\ cpc = "hc_make_offscreen"
    /\ clog' = Append(clog, Step("make_offscreen", Len(browsers) + 1, ""))
    /\ \/ /\ browsers' = MakeDriver(browsers, FALSE)
          /\ driver' = Len(browsers')
          /\ cpc' = AfterStep("hc_make_offscreen")
          /\ UNCHANGED last
       \/ /\ cpc' = "ready"
          /\ last' = "raised"
          /\ UNCHANGED <<browsers, driver>>
    /\ UNCHANGED <<cookies, visible, url, navs, require_auth, cookie_file>>
    /\ UNCHANGED solverVars

\* client.py:190-194
HcPrepareOffscreen ==
    /\ cpc = "hc_prepare_offscreen"
    /\ Prepare(driver, AfterStep("hc_prepare_offscreen"), "ready")
    /\ UNCHANGED <<cookies, driver, visible, url, navs, require_auth, cookie_file>>
    /\ UNCHANGED solverVars

\* client.py:195-196 and the return of _handle_captcha and navigate: where the
\* session goes when the recreated browser has loaded the URL and shows page.
\* The page is not looked at.
\* Variant of AfterFallback: the indicator is read again and the solver rerun.
AfterFallbackRechecked(page) == IF is_captcha_page(page) THEN "hc_solving" ELSE "ready"

AfterFallback(page) == "ready"

\* client.py:195-196, and the return of navigate
HcGetOffscreen ==
    /\ cpc = "hc_get_offscreen"
    /\ clog' = Append(clog, Step("get", driver, url))
    /\ \/ \E page \in Pages :
            /\ cpc' = AfterFallback(page)
            /\ IF cpc' = "hc_solving"
                 THEN /\ pc' = "get_api_key"
                      /\ UNCHANGED last
                      /\ UNCHANGED <<api_key, attempt, guarded, task_id, coords,
                                     crop_left, target_x, page_x, elapsed, timeout,
                                     reportArg, ret, outcome, log, nCreate,
                                     captcha_bounds, result>>
                 ELSE /\ last' = "returned"
                      /\ UNCHANGED solverVars
       \/ /\ cpc' = "ready"
          /\ last' = "raised"
          /\ UNCHANGED solverVars
    /\ UNCHANGED <<cookies, browsers, driver, visible, url, navs, require_auth, cookie_file>>

\* close, client.py:198-202: what quit raises is swallowed.
Close ==
    /\ cpc = "ready"
    /\ \/ browsers' = Quit(browsers, driver)
       \/ browsers' \in {browsers, Quit(browsers, driver)}
    /\ cpc' = "closed"
    /\ last' = "returned"
    /\ UNCHANGED <<cookies, driver, visible, url, clog, navs, require_auth, cookie_file>>
    /\ UNCHANGED solverVars

ClientNext ==
    \/ CtorLoadCookies
    \/ CtorMakeDriver
    \/ CtorPrepare
    \/ Navigate
    \/ AfterSolver
    \/ HcQuit
    \/ HcMakeVisible
    \/ HcPrepareVisible
    \/ HcGetVisible
    \/ HcInput
    \/ HcQuitVisible
    \/ HcMakeOffscreen
    \/ HcPrepareOffscreen
    \/ HcGetOffscreen
    \/ Close

----------------------------------------------------------------------------
(* ShopeeClient._fetch, client.py:107-147, as a function of what the        *)
(* in-page fetch gave: the HTTP status and the body text.                   *)

\* client.py:133 and 142
ANTI_BOT == 90309999

\* The body text by what json.loads makes of it: not JSON ("text"), JSON that
\* is no object (null, a list, a number, a string: "nonobject"), or an
\* object, with its "error" entry (has_error FALSE when the entry is missing
\* or null) and whether it has an "error_msg" entry.
Body(kind, has_error, error, has_msg) ==
    [kind |-> kind, has_error |-> has_error, error |-> error, has_msg |-> has_msg]
NoBody == Body("none", FALSE, 0, FALSE)
ErrorCodes == {0, 2, ANTI_BOT}
Bodies ==
    {Body("text", FALSE, 0, FALSE), Body("nonobject", FALSE, 0, FALSE)}
    \cup {Body("object", FALSE, 0, m) : m \in BOOLEAN}
    \cup {Body("object", TRUE, e, m) : e \in ErrorCodes, m \in BOOLEAN}
Statuses == {200, 401, 403, 404, 500}

\* What execute_script gives at client.py:126: it raises, or returns
\* {status, body}.
Responses ==
    {[raised |-> TRUE, status |-> 0, body |-> NoBody]}
    \cup [raised : {FALSE}, status : Statuses, body : Bodies]
NoResponse == [raised |-> FALSE, status |-> 0, body |-> NoBody]

\* How a call of _fetch ends: it returns the parsed payload or raises exc
\* with message msg; logged is what it printed to the console first.
Returned(payload, logged) ==
    [kind |-> "return", exc |-> "none", msg |-> "none", logged |-> logged,
     payload |-> payload]
Raised(exc, msg, logged) ==
    [kind |-> "raise", exc |-> exc, msg |-> msg, logged |-> logged, payload |-> NoBody]
NotFetched ==
    [kind |-> "none", exc |-> "none", msg |-> "none", logged |-> "none",
     payload |-> NoBody]

\* client.py:130-138: status 401 or 403.  json.loads of a text raises
\* JSONDecodeError, which the handler of client.py:136 passes over; .get on
\* a payload that is no object raises AttributeError, which it does not catch.
fetch_denied(body) ==
    IF body.kind = "text" THEN Raised("SessionExpired", "expired", "none")
    ELSE IF body.kind = "nonobject" THEN Raised("AttributeError", "none", "none")
    ELSE IF body.has_error /\ body.error = ANTI_BOT
           THEN Raised("SessionExpired", "anti-bot", "anti-bot")
    ELSE Raised("SessionExpired", "expired", "none")

\* client.py:144-147: the payload has a non-zero error code that is not the
\* anti-bot code.
\* Variant of fetch_api_error: the API error is raised, not returned.
fetch_api_error_raised(body) == Raised("APIError", "api-error", "api-error")

fetch_api_error(body) == Returned(body, "api-error")

\* client.py:140-147: any other status.
fetch_payload(body) ==
    IF body.kind = "text" THEN Raised("JSONDecodeError", "none", "none")
    ELSE IF body.kind = "nonobject" THEN Raised("AttributeError", "none", "none")
    ELSE IF body.has_error /\ body.error # 0
           THEN IF body.error = ANTI_BOT THEN Returned(body, "anti-bot")
                ELSE fetch_api_error(body)
    ELSE Returned(body, "none")

\* _fetch, client.py:126-147
fetch(resp) ==
    IF resp.raised THEN Raised("WebDriverException", "none", "none")
    ELSE IF resp.status \in {401, 403} THEN fetch_denied(resp.body)
    ELSE fetch_payload(resp.body)

ApplyFetch ==
    /\ helper = "_fetch"
    /\ hpc = "called"
    /\ fetched' = fetch(response)
    /\ hpc' = "returned"
    /\ UNCHANGED <<helper, response, image, crop_bounds, crop, dom, layout, target,
                   drag_distance>>
    /\ UNCHANGED <<doc, success, is_captcha>>
    /\ UNCHANGED <<solverVars, clientVars>>

----------------------------------------------------------------------------
(* _crop_captcha, captcha.py:232-255, applied to a screenshot and to widget  *)
(* bounds as getBoundingClientRect can give them: fractional, negative      *)
(* when the widget is scrolled out to the left or top, beyond the           *)
(* screenshot when it is out to the right or bottom.                        *)

CropImages == {[width |-> 1280, height |-> 720], [width |-> 100, height |-> 80]}
CropBounds ==
    [x : {-4000, -105, -5, 45, 1000, 15000}, y : {-4000, 38, 2000, 9000},
     width : {3000, 3007}, height : {1500}]
NoImage == [width |-> 0, height |-> 0]
NoCrop == [left |-> 0, top |-> 0, right |-> 0, bottom |-> 0]

\* captcha.py:244-249
ApplyCrop ==
    /\ helper = "_crop_captcha"
    /\ hpc = "called"
    /\ crop' = CropRect(image, crop_bounds)
    /\ hpc' = "returned"
    /\ UNCHANGED <<helper, response, fetched, image, crop_bounds, dom, layout, target,
                   drag_distance>>
    /\ UNCHANGED <<doc, success, is_captcha>>
    /\ UNCHANGED <<solverVars, clientVars>>

----------------------------------------------------------------------------
(* The layout probe _GET_LAYOUT_JS, captcha.py:343-367, as a function of    *)
(* the page, and the drag computation of solve_captcha, captcha.py:196-206, *)
(* on what it returned.  Of the geometry only the entries that the drag     *)
(* computation reads are kept: img_x, piece_w, slider_w, track_w (and img_w).*)

\* captcha.py:352 and 358
MIN_BG_WIDTH == 100
DEFAULT_PIECE_W == 44

\* The page: whether #sliderContainer and #NEW_CAPTCHA exist, the widths of
\* the img elements inside #NEW_CAPTCHA in document order, #puzzleImgComponent
\* and its width, the left edge of the images, the width of the slider and of
\* its parent element.
Absent == [present |-> FALSE, width |-> 0]
Piece(w) == [present |-> TRUE, width |-> w]
Doms ==
    [slider : BOOLEAN, captcha : BOOLEAN,
     imgs : {<< >>, <<60>>, <<100>>, <<101>>, <<60, 300>>},
     piece : {Absent, Piece(40), Piece(45)},
     img_x : {0, 50}, slider_w : {40, 400}, parent_w : {30, 300}]
NoDom ==
    [slider |-> FALSE, captcha |-> FALSE, imgs |-> << >>, piece |-> Absent,
     img_x |-> 0, slider_w |-> 0, parent_w |-> 0]

NullLayout ==
    [null |-> TRUE, img_x |-> 0, img_w |-> 0, piece_w |-> 0, slider_w |-> 0,
     track_w |-> 0]

\* captcha.py:348-353: the width of the first image that passes the width
\* test, 0 when none does.
\* Variant of BgImage: the first image is taken whatever its width.
BgImageAnyWidth(imgs) == IF imgs = << >> THEN 0 ELSE imgs[1]

RECURSIVE BgImage(_)
BgImage(imgs) ==
    IF imgs = << >> THEN 0
    ELSE IF Head(imgs) > MIN_BG_WIDTH THEN Head(imgs)
    ELSE BgImage(Tail(imgs))

\* _GET_LAYOUT_JS, captcha.py:344-366
get_layout(d) ==
    IF ~d.slider THEN NullLayout
    ELSE IF ~d.captcha THEN NullLayout
    ELSE IF BgImage(d.imgs) = 0 THEN NullLayout
    ELSE [null     |-> FALSE,
          img_x    |-> d.img_x,
          img_w    |-> BgImage(d.imgs),
          piece_w  |-> IF d.piece.present THEN d.piece.width ELSE DEFAULT_PIECE_W,
          slider_w |-> d.slider_w,
          track_w  |-> IF d.parent_w < BgImage(d.imgs) THEN BgImage(d.imgs)
                       ELSE d.parent_w]

\* captcha.py:197-206, in half pixels: piece_w / 2 is a whole number of them.
\* Variant of compute_drag_distance: the lower clamp is left out.
compute_drag_distance_unclamped_below(l, page) ==
    Min(2 * (page - l.img_x) - l.piece_w, 2 * (l.track_w - l.slider_w))

compute_drag_distance(l, page) ==
    LET slot_in_image == page - l.img_x
        drag == 2 * slot_in_image - l.piece_w
        max_drag == 2 * (l.track_w - l.slider_w)
    IN  Max(0, Min(drag, max_drag))

\* The values of page_x: left of the image, inside it, right of the track.
Targets == {-20, 60, 150, 700}

\* captcha.py:190-194
ApplyLayout ==
    /\ helper = "drag"
    /\ hpc = "called"
    /\ layout' = get_layout(dom)
    /\ hpc' = IF layout'.null THEN "returned" ELSE "probed"
    /\ UNCHANGED <<helper, response, fetched, image, crop_bounds, crop, dom, target,
                   drag_distance>>
    /\ UNCHANGED <<doc, success, is_captcha>>
    /\ UNCHANGED <<solverVars, clientVars>>

\* captcha.py:196-215
ApplyDragDistance ==
    /\ helper = "drag"
    /\ hpc = "probed"
    /\ drag_distance' = compute_drag_distance(layout, target)
    /\ hpc' = "returned"
    /\ UNCHANGED <<helper, response, fetched, image, crop_bounds, crop, dom, layout,
                   target>>
    /\ UNCHANGED <<doc, success, is_captcha>>
    /\ UNCHANGED <<solverVars, clientVars>>

\* The indicator of a verification page, read from one document by the
\* solver after a drag (captcha.py:264-271) and by the session
\* (client.py:149-157).
NoDoc == [h1 |-> "", title |-> ""]
PyBool(b) == IF b THEN "True" ELSE "False"

\* _do_drag_and_check, captcha.py:264-271, after a drag that succeeded.
ApplyDragCheck ==
    /\ helper = "indicator"
    /\ hpc = "called"
    /\ success' = PyBool(VerdictOf(doc.h1))
    /\ hpc' = "probed"
    /\ UNCHANGED <<helper, response, fetched, image, crop_bounds, crop, dom, layout,
                   target, drag_distance, doc, is_captcha>>
    /\ UNCHANGED <<solverVars, clientVars>>

\* _is_captcha_page, client.py:149-157; a script that raises counts as no
\* verification page.
ApplyIsCaptchaPage ==
    /\ helper = "indicator"
    /\ hpc = "probed"
    /\ \/ is_captcha' = PyBool(is_captcha_page(doc))
       \/ is_captcha' = "False"
    /\ hpc' = "returned"
    /\ UNCHANGED <<helper, response, fetched, image, crop_bounds, crop, dom, layout,
                   target, drag_distance, doc, success>>
    /\ UNCHANGED <<solverVars, clientVars>>

\* No helper is applied on its own.
HelpersIdle ==
    /\ helper = "none"
    /\ hpc = "idle"
    /\ response = NoResponse
    /\ fetched = NotFetched
    /\ image = NoImage
    /\ crop_bounds = NoBounds
    /\ crop = NoCrop
    /\ dom = NoDom
    /\ layout = NullLayout
    /\ target = 0
    /\ drag_distance = 0
    /\ doc = NoDoc
    /\ success = "none"
    /\ is_captcha = "none"

\* solve_captcha called on a live off-screen browser, as the script
\* scripts/test_autosolver.py does.
Init ==
    /\ SolverEntered
    /\ cpc = "script"
    /\ cookies = "None"
    /\ browsers = <<Browser(FALSE, "None")>>
    /\ driver = 1
    /\ visible = 0
    /\ url = ""
    /\ clog = << >>
    /\ navs = 0
    /\ last = "none"
    /\ require_auth = FALSE
    /\ cookie_file = NoFile
    /\ HelpersIdle

Next == SolverNext /\ UNCHANGED helperVars

Spec == Init /\ [][Next]_vars

\* solve_captcha where every command and request that was sent returns or
\* raises, and the interpreter takes the next step whenever there is one.
SpecFair == Spec /\ WF_vars(Next)

\* A ShopeeClient from its construction to close(), with solve_captcha
\* running inside navigate.
SolverNotRunning ==
    /\ pc = "idle"
    /\ api_key = "unbound"
    /\ attempt = 0
    /\ guarded = FALSE
    /\ task_id = -1
    /\ coords = NoCoords("unbound")
    /\ crop_left = -1
    /\ target_x = -1
    /\ page_x = -1
    /\ elapsed = 0
    /\ timeout = 0
    /\ reportArg = FALSE
    /\ ret = "none"
    /\ outcome = "running"
    /\ log = << >>
    /\ nCreate = 0
    /\ captcha_bounds = NoBounds
    /\ result = "none"

InitClient ==
    /\ SolverNotRunning
    /\ cpc = "new"
    /\ cookies = "None"
    /\ browsers = << >>
    /\ driver = 0
    /\ visible = 0
    /\ url = ""
    /\ clog = << >>
    /\ navs = 0
    /\ last = "none"
    /\ require_auth = FALSE
    /\ cookie_file = NoFile
    /\ HelpersIdle

NextClient == (ClientNext \/ SolverNext) /\ UNCHANGED helperVars

SpecClient == InitClient /\ [][NextClient]_vars

\* One helper applied to arguments drawn from the values it can be given,
\* with no session and no solver running.
ClientNotRunning ==
    /\ cpc = "none"
    /\ cookies = "None"
    /\ browsers = << >>
    /\ driver = 0
    /\ visible = 0
    /\ url = ""
    /\ clog = << >>
    /\ navs = 0
    /\ last = "none"
    /\ require_auth = FALSE
    /\ cookie_file = NoFile

InitHelpers ==
    /\ SolverNotRunning
    /\ ClientNotRunning
    /\ hpc = "called"
    /\ fetched = NotFetched
    /\ crop = NoCrop
    /\ layout = NullLayout
    /\ drag_distance = 0
    /\ success = "none"
    /\ is_captcha = "none"
    /\ \/ /\ helper = "indicator"
          /\ doc \in Pages
          /\ response = NoResponse
          /\ image = NoImage
          /\ crop_bounds = NoBounds
          /\ dom = NoDom
          /\ target = 0
       \/ /\ helper = "_fetch"
          /\ doc = NoDoc
          /\ response \in Responses
          /\ image = NoImage
          /\ crop_bounds = NoBounds
          /\ dom = NoDom
          /\ target = 0
       \/ /\ helper = "_crop_captcha"
          /\ doc = NoDoc
          /\ image \in CropImages
          /\ crop_bounds \in CropBounds
          /\ response = NoResponse
          /\ dom = NoDom
          /\ target = 0
       \/ /\ helper = "drag"
          /\ doc = NoDoc
          /\ dom \in Doms
          /\ target \in Targets
          /\ response = NoResponse
          /\ image = NoImage
          /\ crop_bounds = NoBounds

NextHelpers ==
    \/ ApplyFetch
    \/ ApplyCrop
    \/ ApplyLayout
    \/ ApplyDragDistance
    \/ ApplyDragCheck
    \/ ApplyIsCaptchaPage

SpecHelpers == InitHelpers /\ [][NextHelpers]_vars

----------------------------------------------------------------------------
(* Properties of solve_captcha, checked under Spec *)

LastEntry(l) == l[Len(l)]
\* What the attempt's reading of the indicator, its createTask request and
\* its poll returned ("" when the attempt has not got there).
RetOf(l, c) == IF Has(l, c) THEN l[First(l, c)].ret ELSE "none"
\* The attempt is over: the loop head is next, or solve_captcha has returned.
AttemptOver == pc \in {"for", "returned"} /\ attempt >= 1

\* C1: at most 8 attempts are started, each attempt sends at most one
\* createTask request, so one call of solve_captcha sends at most 8 of them
\* and an attempt never has two tasks of its own.
C1_AtMostEightAttemptsOneTaskEach ==
    /\ attempt <= 8
    /\ nCreate <= 8
    /\ nCreate <= attempt
    /\ Count(log, "createTask") <= 1

C1_Witness ==
    /\ pc = "returned"
    /\ result = "False"
    /\ attempt = 8
    /\ nCreate = 8

\* C2 (as claimed): no exception raised during an attempt leaves
\* solve_captcha; it ends by returning True or False.
C2_NoExceptionLeavesAnAttempt == ~(pc = "raised" /\ attempt >= 1)

\* C3: when the indicator read after the drag does not contain "verify",
\* report(correct=true) is sent for the task of this attempt and solve_captcha
\* returns True at once: no refresh, no second task, no further attempt.
C3_SolvedReturnsTrueAtOnce ==
    (RetOf(log, "h1") \in {"", "Other"} /\ Has(log, "h1")) =>
        /\ pc \in {"report", "returned"}
        /\ reportArg = TRUE
        /\ ~Has(log, "current_url")
        /\ ~Has(log, "reload")
        /\ ~Has(log, "reportIncorrect")
        /\ Count(log, "createTask") = 1
        /\ Count(log, "reportCorrect") <= 1
        /\ pc = "report" => LastEntry(log).cmd = "h1"
        /\ pc = "returned" =>
             /\ result = "True"
             /\ LastEntry(log) = Entry("reportCorrect", "-", task_id)
             /\ log[First(log, "createTask")] = Entry("createTask", "task", task_id)

C3_Witness ==
    /\ pc = "returned"
    /\ result = "True"
    /\ RetOf(log, "h1") = "Other"
    /\ attempt = 3
    /\ LastEntry(log).cmd = "reportCorrect"

\* C4: when the indicator read after the drag still contains "verify", the
\* next request is report(correct=false) for the task of this attempt, the
\* refresh (current URL read, page reloaded) comes after it, and the attempt
\* is over (the counter advances, or False is returned after attempt 8) only
\* after the page was reloaded.
C4_RejectedReportsThenRefreshesThenAdvances ==
    (RetOf(log, "h1") = "Verify") =>
        LET i == First(log, "h1") IN
        /\ Len(log) = i => pc = "report" /\ reportArg = FALSE
        /\ Len(log) > i =>
             /\ log[i + 1] = Entry("reportIncorrect", "-", task_id)
             /\ log[First(log, "createTask")] = Entry("createTask", "task", task_id)
        /\ Len(log) > i + 1 => log[i + 2].cmd = "current_url"
        /\ AttemptOver => \E j \in (i + 2)..Len(log) : log[j] = Entry("reload", "ok", 0)
        /\ pc = "returned" => result = "False" /\ attempt = 8
        /\ ~Has(log, "reportCorrect")

C4_Witness ==
    /\ pc = "for"
    /\ attempt = 2
    /\ outcome = "rejected"
    /\ RetOf(log, "h1") = "Verify"
    /\ Has(log, "reportIncorrect")
    /\ Has(log, "reload")

\* The poll of the attempt has ended without coordinates: the widget expired,
\* the oracle answered with an error, the deadline passed, or the ready
\* result had no point.
PollGaveNothing == RetOf(log, "poll") \in {"expired", "error", "timeout", "empty"}

\* C5 (as claimed): when a task was created and the poll ends without
\* coordinates, report(correct=false) is sent for the task and the widget is
\* refreshed before the next attempt starts.
C5_NoCoordsReportsAndRefreshes ==
    (AttemptOver /\ PollGaveNothing) =>
        /\ Has(log, "reportIncorrect")
        /\ Has(log, "reload")

\* C5 (amended): when a task was created and the poll ends without
\* coordinates, the attempt ends there: no report is sent, the widget is not
\* refreshed, no browser command follows, and the next attempt starts (or
\* False is returned after attempt 8).
C5_NoCoordsEndsTheAttempt ==
    PollGaveNothing =>
        /\ pc \in {"coords", "for", "returned"}
        /\ LastEntry(log).cmd = "poll"
        /\ Cmds(log) = <<"dismiss", "bounds", "screenshot", "createTask", "poll">>
        /\ log[4] = Entry("createTask", "task", task_id)
        /\ pc # "coords" => outcome = "no_coords"
        /\ pc = "returned" => result = "False" /\ attempt = 8

C5_Witness ==
    /\ pc = "for"
    /\ outcome = "no_coords"
    /\ RetOf(log, "poll") = "timeout"
    /\ task_id > 0

\* C6: when createTask answers with a non-zero errorId, submit yields no task
\* and the attempt is over at once: createTask is its last command, so no
\* poll, report, drag or refresh happens in it.
C6_SubmitErrorEndsTheAttempt ==
    (RetOf(log, "createTask") = "error") =>
        /\ AttemptOver
        /\ Cmds(log) = <<"dismiss", "bounds", "screenshot", "createTask">>
        /\ task_id = 0
        /\ outcome = "submit_failed"
        /\ pc = "returned" => result = "False" /\ attempt = 8

C6_Witness ==
    /\ pc = "for"
    /\ RetOf(log, "createTask") = "error"
    /\ outcome = "submit_failed"

\* C7: in the polling turn in which the liveness check answers that the
\* slider widget is absent, _get_result returns None in that same step: no
\* getTaskResult request is sent in that turn and the deadline is not awaited.
C7_PollReturnsWhenWidgetGone ==
    [][(pc = "poll_alive" /\ ret' = "false") =>
          /\ pc' = "coords"
          /\ coords' = NoCoords("None")
          /\ log' = Append(log, Entry("poll", "expired", task_id))
          /\ elapsed <= POLL_TIMEOUT]_vars

C7_Witness ==
    /\ pc = "coords"
    /\ ret = "false"
    /\ coords = NoCoords("None")
    /\ LastEntry(log) = Entry("poll", "expired", task_id)

\* C8: whatever the report request does (answers, answers with an error,
\* raises), _report returns normally and solve_captcha goes on the same way:
\* True is returned after report(true), the refresh starts after
\* report(false), and the attempt, its outcome and the result are untouched.
C8_ReportFailureChangesNothing ==
    [][(pc = "report") =>
          /\ ret' \in {"ok", "error", "raise"}
          /\ pc' = (IF reportArg THEN "returned" ELSE "refresh_url")
          /\ result' = (IF reportArg THEN "True" ELSE result)
          /\ attempt' = attempt
          /\ outcome' = outcome
          /\ guarded' = (IF reportArg THEN FALSE ELSE guarded)]_vars

C8_Witness ==
    /\ pc = "refresh_url"
    /\ ret = "raise"
    /\ LastEntry(log).cmd = "reportIncorrect"
    /\ outcome = "rejected"

\* C21: once coordinates have been received, when the liveness check after
\* the poll answers false or the fresh layout probe returns null, the next
\* request is report(correct=false) for the task of this attempt, the refresh
\* follows it, the attempt is over only after the page was reloaded, and no
\* drag is dispatched (and no indicator read) in that attempt.
C21_GoneOrNoLayoutReportsRefreshesNoDrag ==
    (RetOf(log, "alive") = "false" \/ RetOf(log, "layout") = "null") =>
        LET i == IF RetOf(log, "alive") = "false" THEN First(log, "alive")
                 ELSE First(log, "layout") IN
        /\ RetOf(log, "poll") = "point"
        /\ ~Has(log, "drag")
        /\ ~Has(log, "h1")
        /\ ~Has(log, "reportCorrect")
        /\ RetOf(log, "alive") = "false" => ~Has(log, "layout")
        /\ Len(log) = i => (pc = "report" /\ reportArg = FALSE)
        /\ Len(log) > i =>
             /\ log[i + 1] = Entry("reportIncorrect", "-", task_id)
             /\ log[First(log, "createTask")] = Entry("createTask", "task", task_id)
        /\ Len(log) > i + 1 => log[i + 2].cmd = "current_url"
        /\ AttemptOver => \E j \in (i + 2)..Len(log) : log[j] = Entry("reload", "ok", 0)
        /\ outcome \in {"expired", "no_layout", "exception"}
        /\ pc = "returned" => (result = "False" /\ attempt = 8)

C21_Witness ==
    /\ pc = "for"
    /\ attempt = 2
    /\ outcome = "expired"
    /\ RetOf(log, "alive") = "false"
    /\ Has(log, "reportIncorrect")
    /\ Has(log, "reload")
    /\ ~Has(log, "drag")

\* C22: when the bounds probe of an attempt returns null, the attempt takes
\* no screenshot and makes no oracle request; the refresh is the next thing
\* it does, and the attempt is over only after the page was reloaded.
C22_NoWidgetRefreshesWithoutOracle ==
    (RetOf(log, "bounds") = "null") =>
        /\ Cmds(SubSeq(log, 1, 2)) = <<"dismiss", "bounds">>
        /\ \A c \in {"screenshot", "createTask", "poll", "reportCorrect",
                      "reportIncorrect", "alive", "layout", "drag", "h1"} : ~Has(log, c)
        /\ task_id = -1
        /\ nCreate < attempt
        /\ Len(log) = 2 => pc = "refresh_url"
        /\ Len(log) > 2 => log[3].cmd = "current_url"
        /\ AttemptOver => \E j \in 3..Len(log) : log[j] = Entry("reload", "ok", 0)
        /\ outcome \in {"no_widget", "exception"}
        /\ pc = "returned" => (result = "False" /\ attempt = 8)

C22_Witness ==
    /\ pc = "for"
    /\ attempt = 1
    /\ outcome = "no_widget"
    /\ RetOf(log, "bounds") = "null"
    /\ Has(log, "reload")
    /\ nCreate = 0

\* C23: in every attempt that gets to the drag computation, page_x is the
\* oracle's x plus the left edge of the crop that this same attempt computed
\* from its own bounds probe and screenshot; the offset is added once.
C23_PageXIsCropXPlusCropLeft ==
    /\ pc \in {"layout", "drag", "check_h1"} => page_x # -1
    /\ page_x # -1 =>
         /\ coords.kind = "point"
         /\ target_x = coords.x
         /\ captcha_bounds \in WidgetBounds
         /\ log[2] = Entry("bounds", "bounds", 0)
         /\ log[3] = Entry("screenshot", "png", 0)
         /\ Count(log, "screenshot") = 1
         /\ \E img \in Screenshots : crop_left = CropRect(img, captcha_bounds).left
         /\ crop_left >= 0
         /\ page_x = coords.x + crop_left
         /\ page_x - crop_left = coords.x

C23_Witness ==
    /\ pc = "drag"
    /\ attempt = 2
    /\ coords = [kind |-> "point", x |-> 60]
    /\ crop_left = 90
    /\ page_x = 150

\* C24 (as claimed): the modal dismissal is the first command of every
\* attempt, and when it fails the attempt does not fail: the bounds probe of
\* that attempt runs next.
C24_DismissalFailureIsIgnored ==
    /\ (attempt >= 1 /\ Len(log) >= 1) => log[1].cmd = "dismiss"
    /\ (Len(log) >= 1 /\ log[1] = Entry("dismiss", "raise", 0)) =>
         /\ Len(log) = 1 => pc = "bounds"
         /\ Len(log) >= 2 => log[2].cmd = "bounds"
         /\ outcome # "exception"

\* solve_captcha is over: it returned, or an exception left it.
SolverOver == pc \in {"returned", "raised"}

\* The positions inside _get_result.
InPoll(p) == p \in {"poll_sleep", "poll_keepalive", "poll_alive", "poll_request"}

\* C25: a turn of the loop of _get_result starts only before the deadline of
\* 60 s and starts with 2 s of sleep, the one getTaskResult request of the
\* turn follows that sleep, and the clock of the poll never goes back: the
\* turns start 2 s apart or more, so that one poll sends at most 30 requests;
\* the timeout outcome is returned at the deadline and only then.  One
\* _wait_for_captcha_widget makes a check only before its deadline of 15 or
\* 20 s, every check that does not end the wait is followed by 1 s or more on
\* the clock, so that it makes at most `timeout` checks, and it gives up at
\* the deadline.  And solve_captcha always terminates.
C25_BoundedLoopsAndTermination ==
    /\ [](/\ InPoll(pc) => elapsed \in 0..60
          /\ pc \in {"poll_keepalive", "poll_alive", "poll_request"} => elapsed >= 2
          /\ pc = "wait" => /\ timeout \in {15, 20}
                            /\ elapsed \in 0..timeout)
    /\ [][/\ (pc = "poll_sleep" /\ pc' = "poll_keepalive") =>
               (\/ elapsed <= 60 - 2 /\ elapsed' = elapsed + 2
                \/ elapsed = 60 - 1 /\ elapsed' = 60)
          /\ (InPoll(pc) /\ InPoll(pc')) => elapsed' >= elapsed
          /\ (pc = "poll_request" /\ InPoll(pc')) => pc' = "poll_sleep"
          /\ (pc \in {"poll_keepalive", "poll_alive"} /\ InPoll(pc')) =>
               pc' \in {"poll_alive", "poll_request"}
          /\ (pc = "poll_sleep" /\ pc' = "coords") =>
               /\ elapsed = 60
               /\ LastEntry(log') = Entry("poll", "timeout", task_id)
          /\ (pc = "poll_sleep" /\ elapsed = 60) => pc' = "coords"
          /\ (pc = "wait" /\ pc' = "wait") =>
               (elapsed < timeout /\ elapsed' >= elapsed + 1)
          /\ (pc = "wait" /\ elapsed = timeout) =>
               (pc' = "for" /\ LastEntry(log') = Entry("wait", "timeout", 0))]_vars
    /\ <>SolverOver

\* The last attempt ended with a poll that timed out after 30 requests, and
\* solve_captcha has returned.
C25_Witness ==
    /\ pc = "returned"
    /\ result = "False"
    /\ attempt = 8
    /\ Len(log) >= 1
    /\ LastEntry(log) = Entry("poll", "timeout", task_id)

\* The positions of the report requests in the log of the attempt.
Reports(l) == {i \in 1..Len(l) : l[i].cmd \in {"reportCorrect", "reportIncorrect"}}

\* C26: an attempt sends at most one report; the report names the task that
\* the createTask request of this attempt created, which is the newest task
\* of the run (tasks are numbered in the order of creation, so no other
\* attempt reports it); report(correct) is the last request of the run, sent
\* in the attempt that returns True.  A report request leaves the number of
\* created tasks as it is, and tasks are never created twice.
C26_OneReportPerTaskCorrectOnlyOnSuccess ==
    /\ [](/\ Cardinality(Reports(log)) <= 1
          /\ \A i \in Reports(log) :
               /\ log[i].task = nCreate
               /\ log[i].task = task_id
               /\ \E j \in 1..(i - 1) : log[j] = Entry("createTask", "task", nCreate)
          /\ Has(log, "reportCorrect") =>
               /\ LastEntry(log).cmd = "reportCorrect"
               /\ pc = "returned"
               /\ result = "True")
    /\ [][/\ nCreate' >= nCreate
          /\ nCreate' > nCreate => Reports(log') = {}
          /\ (pc = "returned" /\ result = "True") => UNCHANGED log]_vars

\* The task of the attempt was reported correct and solve_captcha returned
\* True, after an earlier attempt whose task was reported incorrect.
C26_Witness ==
    /\ pc = "returned"
    /\ result = "True"
    /\ attempt >= 2
    /\ nCreate >= 2
    /\ Len(log) >= 1
    /\ LastEntry(log) = Entry("reportCorrect", "-", nCreate)

\* C31: when the keepalive script or the liveness check raises, the poll
\* goes on to the getTaskResult request of the same turn with nothing else
\* changed; at that position a request is sent in the next step; and the
\* poll is only left after the deadline, after the liveness check answered
\* that the widget is gone, or after a getTaskResult request (ready, oracle
\* error, or the request itself raising), never by a browser command that
\* raised.
C31_BrowserFailureDoesNotEndThePoll ==
    [][/\ (pc \in {"poll_keepalive", "poll_alive"} /\ ret' = "raise") =>
            /\ pc' = "poll_request"
            /\ UNCHANGED <<log, coords, task_id, attempt, outcome, guarded, result>>
       /\ pc = "poll_request" =>
            /\ ret' \in {"processing", "ready", "error", "raise"}
            /\ ret' = "processing" => (pc' = "poll_sleep" /\ UNCHANGED <<log, coords>>)
       /\ (InPoll(pc) /\ ~InPoll(pc')) =>
            \/ pc = "poll_sleep" /\ elapsed = 60
            \/ pc = "poll_alive" /\ ret' = "false"
            \/ pc = "poll_request" /\ ret' \in {"ready", "error", "raise"}]_vars

\* In a later turn of the poll a browser command has raised, and the
\* getTaskResult request of that turn is the next step.
C31_Witness ==
    /\ pc = "poll_request"
    /\ ret = "raise"
    /\ elapsed >= 2 * POLL_INTERVAL
    /\ outcome = "running"

\* solve_captcha has returned False.
ReturnedFalse == pc = "returned" /\ result = "False"

\* C19 (as claimed): solve_captcha returns False only after 8 attempts have
\* been started and have failed, never after fewer.
C19_FalseOnlyAfterEightAttempts == ReturnedFalse => attempt = 8

\* C19 (amended): solve_captcha returns False only when no API key was found,
\* and then before any attempt and any command, or after 8 attempts have been
\* started and the eighth has failed; with an API key never after fewer.
C19_FalseOnlyWithoutKeyOrAfterEightAttempts ==
    /\ ReturnedFalse =>
         \/ /\ api_key \in {"None", ""}
            /\ attempt = 0
            /\ log = << >>
            /\ nCreate = 0
         \/ /\ api_key = "KEY"
            /\ attempt = 8
            /\ outcome \in {"no_widget", "submit_failed", "no_coords", "expired",
                             "no_layout", "drag_failed", "rejected", "exception"}
    /\ (pc = "returned" /\ result = "True") => (attempt \in 1..8 /\ outcome = "solved")
    /\ attempt >= 1 => api_key = "KEY"

C19_Witness ==
    /\ ReturnedFalse
    /\ api_key = "KEY"
    /\ attempt = 8
    /\ outcome = "no_widget"

\* C20 (as claimed): when the drag script returns false the indicator is not
\* read and no report(correct=false) is sent for the task.
C20_DragFailureIsNotReported ==
    (RetOf(log, "drag") = "false") =>
        /\ ~Has(log, "h1")
        /\ ~Has(log, "reportIncorrect")

\* C20 (amended): when the drag script returns false the attempt fails
\* without the indicator being read; report(correct=false) is sent for the
\* task of this attempt as the next request, the refresh follows it, and the
\* attempt is over only after the page was reloaded.
C20_DragFailureIsReportedWithoutCheck ==
    (RetOf(log, "drag") = "false") =>
        LET i == First(log, "drag") IN
        /\ ~Has(log, "h1")
        /\ ~Has(log, "reportCorrect")
        /\ Len(log) = i => (pc = "report" /\ reportArg = FALSE)
        /\ Len(log) > i =>
             /\ log[i + 1] = Entry("reportIncorrect", "-", task_id)
             /\ log[First(log, "createTask")] = Entry("createTask", "task", task_id)
        /\ Len(log) > i + 1 => log[i + 2].cmd = "current_url"
        /\ AttemptOver => \E j \in (i + 2)..Len(log) : log[j] = Entry("reload", "ok", 0)
        /\ outcome \in {"drag_failed", "exception"}
        /\ pc = "returned" => (result = "False" /\ attempt = 8)

C20_Witness ==
    /\ pc = "for"
    /\ outcome = "drag_failed"
    /\ RetOf(log, "drag") = "false"
    /\ Has(log, "reportIncorrect")
    /\ Has(log, "reload")
    /\ ~Has(log, "h1")

----------------------------------------------------------------------------
(* Properties of ShopeeClient, checked under SpecClient *)

IsPrefix(a, b) == Len(a) <= Len(b) /\ \A i \in 1..Len(a) : a[i] = b[i]

\* C9: at most one browser instance created by the session is live at any
\* time; when the visible instance has been created the off-screen one is
\* quit, and when the replacement has been created the visible one is quit.
C9_AtMostOneLiveBrowser ==
    /\ Cardinality(Live(browsers)) <= 1
    /\ cpc = "hc_prepare_visible" => Live(browsers) = {visible} /\ visible # driver
    /\ cpc = "hc_prepare_offscreen" => Live(browsers) = {driver} /\ visible # driver

C9_Witness ==
    /\ cpc = "hc_prepare_offscreen"
    /\ Len(browsers) = 3
    /\ Live(browsers) = {3}
    /\ ~browsers[1].live
    /\ browsers[2].visible /\ ~browsers[2].live

\* The steps of the human fallback for the running navigate: the browser
\* each acts on, and its argument.
ExpectedFallback(d0, v, d1) ==
    <<Step("quit", d0, ""),
      Step("make_visible", v, ""),
      IF cookies = "set" THEN Step("inject", v, cookies) ELSE Step("get", v, HOME),
      Step("get", v, url),
      Step("input", 0, ""),
      Step("quit", v, ""),
      Step("make_offscreen", d1, ""),
      IF cookies = "set" THEN Step("inject", d1, cookies) ELSE Step("get", d1, HOME),
      Step("get", d1, url)>>

\* C10: after solve_captcha returned False the session does exactly: quit the
\* off-screen browser, create a visible one, give it the session's cookie
\* set, load the original URL, wait for the acknowledgment, quit the visible
\* one, create an off-screen one, give it the same cookie set, load the
\* original URL.  What has been done so far is always a prefix of that, so
\* the visible browser is never quit before the acknowledgment.
C10_HumanFallbackSequence ==
    /\ (navs >= 1 /\ Len(clog) >= 1) =>
         \E d0 \in 1..Len(browsers) :
           \E v \in (d0 + 1)..(Len(browsers) + 1) :
             \E d1 \in (v + 1)..(Len(browsers) + 2) :
               IsPrefix(clog, ExpectedFallback(d0, v, d1))
    /\ (navs >= 1 /\ cpc = "ready" /\ last = "returned" /\ Len(clog) >= 1) =>
         LET given == IF cookies = "set" THEN "set" ELSE "None" IN
         /\ clog = ExpectedFallback(clog[1].browser, visible, driver)
         /\ browsers[visible] = [visible |-> TRUE, live |-> FALSE, cookies |-> given]
         /\ browsers[driver] = [visible |-> FALSE, live |-> TRUE, cookies |-> given]
         /\ ~browsers[clog[1].browser].live

C10_Witness ==
    /\ cpc = "ready"
    /\ last = "returned"
    /\ cookies = "set"
    /\ Len(clog) = 9
    /\ clog[5].step = "input"
    /\ clog[6] = Step("quit", visible, "")
    /\ browsers[driver].cookies = "set"
    /\ browsers[driver].live

\* C11: within one navigate call solve_captcha is entered at most once, by
\* the step that starts the navigate, and it runs only before any step of the
\* human fallback; the step that re-navigates the recreated off-screen
\* browser ends the navigate whatever page results, with the solver not
\* running and no indicator read.
C11_SolverOncePerNavigateNeverAfterHuman ==
    [][/\ (pc' # "idle") => (cpc' = "hc_solving" /\ clog' = << >>)
       /\ (pc = "idle" /\ pc' # "idle") => (cpc = "ready" /\ navs' = navs + 1)
       /\ (cpc = "hc_get_offscreen") =>
            /\ cpc' = "ready"
            /\ pc' = "idle"
            /\ last' \in {"returned", "raised"}]_vars

C11_Witness ==
    /\ cpc = "ready"
    /\ last = "returned"
    /\ navs = 1
    /\ pc = "idle"
    /\ Len(clog) = 9
    /\ clog[9] = Step("get", driver, url)
    /\ clog[1] = Step("quit", 1, "")

\* The cookie file holds no usable cookie set: it is missing, not parsable
\* into an object with a numeric saved_at, saved more than 86400 s ago, or
\* has no cookie list.
Unusable(file) ==
    \/ file.state # "json"
    \/ file.age > 86400
    \/ file.cookies = "None"

\* C12 (as claimed): ShopeeClient(require_auth=True) with no usable cookie
\* set ends in the fatal exit and no browser instance was created; with a
\* cookie list saved at most 86400 s ago (the limit included) the constructor
\* goes on to create the browser and the session keeps that list; an exit
\* happens in no other case.  Looked at when the constructor is past the
\* loading of the cookies, however that ended.
C12_FatalExitWithoutUsableCookies ==
    (\/ cpc \in {"exited", "ctor_make"}
     \/ cpc = "ctor_raised" /\ cookie_file.state \in RaisingFiles) =>
        /\ browsers = << >>
        /\ driver = 0
        /\ (require_auth /\ Unusable(cookie_file)) => (cpc = "exited" /\ last = "exit")
        /\ (cookie_file.state = "json" /\ cookie_file.age <= 86400
              /\ cookie_file.cookies # "None") =>
             (cpc = "ctor_make" /\ cookies = cookie_file.cookies)
        /\ cpc = "exited" => (require_auth /\ Unusable(cookie_file))

----------------------------------------------------------------------------
(* Properties of _fetch, checked under SpecHelpers *)

\* _fetch has ended on a response that the in-page fetch returned.
FetchDone == helper = "_fetch" /\ hpc = "returned" /\ ~response.raised
\* The payload carries this error code.
HasErrorCode(body, code) == body.kind = "object" /\ body.has_error /\ body.error = code

\* C13 (as claimed): for every {status, body} _fetch ends in one of four
\* outcomes (payload returned with nothing logged; SessionExpired raised;
\* anti-bot block logged; API error logged and payload returned), every 401
\* or 403 ends in a raised SessionExpired, and no other exception type
\* leaves _fetch.
C13_FetchEndsInOneOfFourOutcomes ==
    FetchDone =>
        /\ \/ fetched = Returned(response.body, "none")
           \/ fetched.kind = "raise" /\ fetched.exc = "SessionExpired"
           \/ fetched.logged = "anti-bot"
           \/ fetched = Returned(response.body, "api-error")
        /\ response.status \in {401, 403} =>
             (fetched.kind = "raise" /\ fetched.exc = "SessionExpired")
        /\ fetched.kind = "raise" => fetched.exc = "SessionExpired"

\* C14 (as claimed): a response whose payload carries the error code 90309999
\* aborts the request whatever its status: the payload is not returned, and
\* what is raised differs from what a session expiry raises.
C14_AntiBotAbortsTheRequest ==
    (FetchDone /\ HasErrorCode(response.body, ANTI_BOT)) =>
        /\ fetched.kind = "raise"
        /\ fetched.payload = NoBody
        /\ <<fetched.exc, fetched.msg>> # <<"SessionExpired", "expired">>

\* C15: a response with a status other than 401 and 403 whose payload has a
\* non-zero error code other than 90309999 is logged as an API error and the
\* parsed payload is returned as it is; nothing is raised.
C15_ApiErrorIsLoggedAndReturned ==
    (/\ FetchDone
     /\ response.status \notin {401, 403}
     /\ response.body.kind = "object"
     /\ response.body.has_error
     /\ response.body.error \notin {0, ANTI_BOT}) =>
        /\ fetched.kind = "return"
        /\ fetched.exc = "none"
        /\ fetched.logged = "api-error"
        /\ fetched.payload = response.body

C15_Witness ==
    /\ FetchDone
    /\ response.status = 500
    /\ response.body = Body("object", TRUE, 2, FALSE)
    /\ fetched.kind = "return"
    /\ fetched.logged = "api-error"

----------------------------------------------------------------------------
(* Properties of _crop_captcha, checked under SpecHelpers *)

CropDone == helper = "_crop_captcha" /\ hpc = "returned"

\* C16 (as claimed): for all widget bounds and every image size the crop
\* rectangle lies within the image: 0 <= left, right <= image width and
\* 0 <= top, bottom <= image height; and bounds x = 100, y = 200 give
\* left = 90, top = 190.
C16_CropRectangleWithinImage ==
    CropDone =>
        /\ 0 <= crop.left /\ crop.left <= image.width
        /\ 0 <= crop.right /\ crop.right <= image.width
        /\ 0 <= crop.top /\ crop.top <= image.height
        /\ 0 <= crop.bottom /\ crop.bottom <= image.height
        /\ (crop_bounds.x = 1000 /\ crop_bounds.y = 2000) => (crop.left = 90 /\ crop.top = 190)

----------------------------------------------------------------------------
(* Properties of the layout probe and of the drag computation, checked      *)
(* under SpecHelpers                                                        *)

LayoutDone == helper = "drag" /\ hpc \in {"probed", "returned"}
DragDone == helper = "drag" /\ hpc = "returned" /\ ~layout.null
HasImageOfWidth(d, w) == \E i \in 1..Len(d.imgs) : d.imgs[i] >= w

\* C17: for a layout with track_w >= slider_w the distance handed to the drag
\* is (page_x - img_x) - piece_w / 2 clamped into [0, track_w - slider_w],
\* so it lies in that interval (here in half pixels); img_x = 50,
\* piece_w = 40, slider_w = 40, track_w = 300, page_x = 150 give 80 pixels.
C17_DragDistanceWithinTrack ==
    (DragDone /\ layout.track_w >= layout.slider_w) =>
        LET raw == 2 * (target - layout.img_x) - layout.piece_w
            hi == 2 * (layout.track_w - layout.slider_w)
        IN  /\ 0 <= drag_distance
            /\ drag_distance <= hi
            /\ drag_distance = (IF raw < 0 THEN 0 ELSE IF raw > hi THEN hi ELSE raw)
            /\ (/\ layout.img_x = 50 /\ layout.piece_w = 40 /\ layout.slider_w = 40
                 /\ layout.track_w = 300 /\ target = 150) => drag_distance = 2 * 80

C17_Witness ==
    /\ DragDone
    /\ layout.img_x = 50 /\ layout.piece_w = 40 /\ layout.slider_w = 40
    /\ layout.track_w = 300
    /\ target = 150
    /\ drag_distance = 160

\* C18 (as claimed): the layout probe returns null whenever the slider
\* container, the CAPTCHA container, a background image at least 100 px wide
\* or the puzzle piece is absent.
C18_LayoutNullWhenAnyElementAbsent ==
    (LayoutDone /\ (\/ ~dom.slider
                    \/ ~dom.captcha
                    \/ ~HasImageOfWidth(dom, 100)
                    \/ ~dom.piece.present)) => layout.null

\* C18 (amended): the probe returns null whenever the slider container, the
\* CAPTCHA container or a background image at least 100 px wide is absent,
\* and returns geometry only when the two containers and an image more than
\* 100 px wide are present; the puzzle piece is not required: without it the
\* geometry is returned with piece_w = 44.
C18_LayoutNullWithoutContainersOrImage ==
    LayoutDone =>
        /\ (~dom.slider \/ ~dom.captcha \/ ~HasImageOfWidth(dom, 100)) => layout.null
        /\ ~layout.null => (dom.slider /\ dom.captcha /\ HasImageOfWidth(dom, 101))
        /\ (dom.slider /\ dom.captcha /\ HasImageOfWidth(dom, 101) /\ ~dom.piece.present)
             => (~layout.null /\ layout.piece_w = 44)

C18_Witness ==
    /\ LayoutDone
    /\ dom.slider /\ dom.captcha
    /\ dom.imgs = <<60, 300>>
    /\ ~dom.piece.present
    /\ ~layout.null
    /\ layout.piece_w = 44
    /\ layout.img_w = 300

----------------------------------------------------------------------------
(* solve_captcha inside the session *)

\* C27 (as claimed): when solve_captcha is over and get_api_key gave it no
\* key, it has returned False, and no browser command and no oracle request
\* was issued (the log and the last answer are empty, no task was created,
\* the loop was not entered), and the session's browsers and handle are what
\* they were when solve_captcha was called, the off-screen browser still live
\* for the human fallback.
C27_NoKeyReturnsFalseTouchingNothing ==
    (SolverOver /\ api_key # "KEY") =>
        /\ pc = "returned"
        /\ result = "False"
        /\ log = << >>
        /\ ret = "none"
        /\ nCreate = 0
        /\ attempt = 0
        /\ clog = << >>
        /\ browsers[driver].live
        /\ Live(browsers) = {driver}

\* Both readings of the indicator were made of the same document.
IndicatorDone == helper = "indicator" /\ hpc = "returned"

\* C28 (as claimed): a document that _do_drag_and_check takes for solved is
\* one that _is_captcha_page does not take for a verification page.
C28_SolvedIsNeverDetected ==
    (IndicatorDone /\ success = "True") => is_captcha = "False"

\* C29 (as claimed): when a public operation of the session has returned or
\* raised and close() was not called, self._driver refers to an instance
\* that was not quit.
C29_HandleIsLiveBetweenOperations ==
    (cpc = "ready" /\ driver # 0) => browsers[driver].live

\* C30 (as claimed): once close() has returned, or the constructor has
\* raised, no browser instance that the session created is live.
C30_NoLiveBrowserAfterCloseOrFailedConstruction ==
    (cpc \in {"closed", "ctor_raised"}) => Live(browsers) = {}

====
